---------------------------- MODULE Spec2Model ----------------------------
(***************************************************************************)
(* Model of src/models/model.py: the Model facade of the conversational    *)
(* question-answering system (token importances extractor + importance     *)
(* conditioned encoder-decoder).                                           *)
(*                                                                         *)
(* A Python str is a sequence of one-character strings, a Python list a    *)
(* sequence.  An Optional argument is None or Some(value).  Every handler  *)
(* of the facade (generate, compute_token_importances, load_weigths) is    *)
(* one action; the calls it makes to its collaborators (tokenizer,         *)
(* extractor, encoder-decoder, torch.load) are recorded, with their        *)
(* arguments and the gradient mode in force, in the variable `last`.       *)
(***************************************************************************)
EXTENDS Integers, Sequences, FiniteSets, TLC

VARIABLES
    model_name,         \* self.model_name
    device,             \* self.device
    tokenizer,          \* self.tokenizer
    config,             \* self.encoder_decoder.config (the two wired ids)
    generation_params,  \* self.generation_params (Unset before the first generate)
    extractor_weights,  \* parameters of self.token_importances_extractor
    encdec_weights,     \* parameters of self.encoder_decoder
    grad_enabled,       \* torch's gradient-tracking mode (torch.is_grad_enabled())
    tok_calls,          \* number of calls made to self.tokenizer so far
    last                \* the last facade call: arguments, collaborator calls, outcome

vars == <<model_name, device, tokenizer, config, generation_params,
          extractor_weights, encdec_weights, grad_enabled, tok_calls, last>>

\* The fields of the facade other than self.generation_params.
other_fields == <<model_name, device, tokenizer, config, extractor_weights,
                  encdec_weights>>

---------------------------------------------------------------------------
(* Bounds of the model.                                                    *)

\* Most turns in a history string.
MaxTurns == 2
\* Most samples in a batch handed to generate.
MaxBatch == 2
\* Most tokenizer calls in a behaviour.
MaxCalls == 2

---------------------------------------------------------------------------
(* Python values.                                                          *)

None == [none |-> TRUE]
Some(v) == [some |-> v]
Unset == [unset |-> TRUE]

\* The literal ' <sep> ' of h.split(' <sep> ').
HistorySeparator == <<" ", "<", "s", "e", "p", ">", " ">>

\* str.startswith at a position: sep occurs in s at index i.
OccursAt(s, sep, i) ==
    /\ i >= 1
    /\ i + Len(sep) - 1 <= Len(s)
    /\ SubSeq(s, i, i + Len(sep) - 1) = sep

\* str.find, 1-based, 0 when absent.
Find(s, sep) ==
    LET hits == {i \in 1..Len(s) : OccursAt(s, sep, i)}
    IN IF hits = {} THEN 0
       ELSE CHOOSE i \in hits : \A j \in hits : i <= j

\* str.split(sep) for a non-empty sep: left to right, non-overlapping; the
\* result always holds at least one string.
RECURSIVE Split(_, _)
Split(s, sep) ==
    LET i == Find(s, sep)
    IN IF i = 0 THEN <<s>>
       ELSE <<SubSeq(s, 1, i - 1)>> \o Split(SubSeq(s, i + Len(sep), Len(s)), sep)

\* sep.join(list).
RECURSIVE Join(_, _)
Join(sep, list) ==
    IF Len(list) = 0 THEN <<>>
    ELSE IF Len(list) = 1 THEN list[1]
    ELSE list[1] \o sep \o Join(sep, Tail(list))

\* zip(a, b): as long as the shorter.
Zip(a, b) ==
    LET n == IF Len(a) <= Len(b) THEN Len(a) ELSE Len(b)
    IN [i \in 1..n |-> <<a[i], b[i]>>]

---------------------------------------------------------------------------
(* Tokenizers.                                                             *)

\* AutoTokenizer.from_pretrained('prajjwal1/bert-tiny')
BertTokenizer ==
    [sep_token |-> <<"[", "S", "E", "P", "]">>, cls_token_id |-> 101, pad_token_id |-> 0]

\* AutoTokenizer.from_pretrained('distilroberta-base')
RobertaTokenizer ==
    [sep_token |-> <<"<", "/", "s", ">">>, cls_token_id |-> 0, pad_token_id |-> 1]

\* A tokenizer built by the caller, with ids of its own.
CallerTokenizer ==
    [sep_token |-> <<"<", "s", "e", "p", ">">>, cls_token_id |-> 2, pad_token_id |-> 3]

ModelNames == {"prajjwal1/bert-tiny", "distilroberta-base"}

AutoTokenizer(name) ==
    IF name = "prajjwal1/bert-tiny" THEN BertTokenizer ELSE RobertaTokenizer

\* f' {self.tokenizer.sep_token} '
Separator(tok) == <<" ">> \o tok.sep_token \o <<" ">>

---------------------------------------------------------------------------
(* Linearization of question and history.                                  *)

\* Mutant: the separator after the question is forgotten.
GenerateLinearizeOneNoLeadingSeparator(tok, q, h) ==
    q \o Join(Separator(tok), h)

\* generate: one element of the comprehension.
GenerateLinearizeOne(tok, q, h) ==
    LET separator == Separator(tok)
    IN q \o (IF Len(h) # 0 THEN separator ELSE <<>>) \o Join(separator, h)

\* Mutant: every sample gets the turns of the first sample of the batch.
GenerateLinearizeFirstHistory(tok, question, history) ==
    IF history # None
    THEN LET turns == [i \in 1..Len(history.some) |->
                          Split(history.some[1], HistorySeparator)]
             pairs == Zip(question, turns)
         IN [i \in 1..Len(pairs) |->
                GenerateLinearizeOne(tok, pairs[i][1], pairs[i][2])]
    ELSE question

\* generate: question_and_history.
GenerateLinearize(tok, question, history) ==
    IF history # None
    THEN LET turns == [i \in 1..Len(history.some) |->
                          Split(history.some[i], HistorySeparator)]
             pairs == Zip(question, turns)
         IN [i \in 1..Len(pairs) |->
                GenerateLinearizeOne(tok, pairs[i][1], pairs[i][2])]
    ELSE question

\* compute_token_importances: question_and_history.
ComputeLinearize(tok, question, history) ==
    IF history # None
    THEN LET turns == Split(history.some, HistorySeparator)
             separator == Separator(tok)
         IN question \o (IF Len(turns) # 0 THEN separator ELSE <<>>)
                     \o Join(separator, turns)
    ELSE question

---------------------------------------------------------------------------
(* Collaborators, as the facade sees them.                                 *)

\* self.tokenizer(question_and_history, passage, ...): the n-th call of the
\* tokenizer yields a BatchEncoding whose input_ids and attention_mask are
\* those of call n.
Tokenize(text, text_pair, n) ==
    [input_ids |-> [call |-> n], attention_mask |-> [call |-> n]]

\* self.token_importances_extractor.forward(input_ids, attention_mask): the
\* scores are aligned with the input_ids they were computed from.
ExtractorForward(input_ids, attention_mask) ==
    [computed_from |-> input_ids.call]

\* with torch.no_grad(): entering saves the mode in force and disables
\* gradient tracking.
NoGradEnter(mode) == [prev |-> mode, inside |-> FALSE]

\* Mutant: gradient tracking stays disabled after the block.
NoGradExitStaysDisabled(ctx) == ctx.inside

\* Leaving the with block, normally or by an exception, restores the saved mode.
NoGradExit(ctx) == ctx.prev

---------------------------------------------------------------------------
(* Model.__init__                                                          *)

\* device : str = 'cuda'
Devices == {"cuda"}

\* Mutant: the padding id is wired from the cls token as well.
WireConfigClsTwice(tok) ==
    [decoder_start_token_id |-> tok.cls_token_id, pad_token_id |-> tok.cls_token_id]

\* The wiring of the special token ids into the encoder-decoder's config.
WireConfig(tok) ==
    [decoder_start_token_id |-> tok.cls_token_id, pad_token_id |-> tok.pad_token_id]

\* The record of a facade call.
Call(op, args, outcome, raised_at, tokenizer_call, extractor_call, encdec_call, ret) ==
    [op |-> op, args |-> args, outcome |-> outcome, raised_at |-> raised_at,
     tokenizer_call |-> tokenizer_call, extractor_call |-> extractor_call,
     encdec_call |-> encdec_call, ret |-> ret]

Construct(name, tok_arg, dev) ==
    /\ model_name = name
    /\ device = dev
    /\ tokenizer = (IF tok_arg = None THEN AutoTokenizer(name) ELSE tok_arg.some)
    /\ config = WireConfig(tokenizer)
    /\ generation_params = Unset
    /\ extractor_weights = "pretrained"
    /\ encdec_weights = "pretrained"
    /\ tok_calls = 0
    /\ last = Call("__init__", [model_name |-> name, tokenizer |-> tok_arg, device |-> dev],
                   "returned", "", None, None, None, None)

Init ==
    /\ grad_enabled \in BOOLEAN
    /\ \E name \in ModelNames, tok_arg \in {None, Some(CallerTokenizer)}, dev \in Devices :
          Construct(name, tok_arg, dev)

---------------------------------------------------------------------------
(* Model.generate                                                          *)

DefaultGenerationParams ==
    [do_sample |-> FALSE, num_beams |-> 3, repetition_penalty |-> "2."]

\* Mutant: the caller's parameters are merged over the defaults.
GenerationParamsMerged(gp_arg) ==
    [k \in DOMAIN DefaultGenerationParams |->
        IF gp_arg # None /\ k \in DOMAIN gp_arg.some THEN gp_arg.some[k]
        ELSE DefaultGenerationParams[k]]

\* The local generation_params after the defaulting.
GenerationParamsUsed(gp_arg) ==
    IF gp_arg = None THEN DefaultGenerationParams ELSE gp_arg.some

\* Mutant: the argument is stored before the defaulting.
GenerateStoredArgument(gp_arg) == gp_arg

\* self.generation_params = generation_params
GenerateStored(gp_arg) == Some(GenerationParamsUsed(gp_arg))

\* Mutant: the importances of the previous extractor pass, when there is
\* one, are handed on instead of those just computed.
GenerateEncDecArgsCached(inputs, token_importances_output, gp) ==
    [input_ids |-> inputs.input_ids,
     token_importances |->
         IF last.extractor_call # None /\ last.extractor_call.some.output # None
         THEN last.extractor_call.some.output
         ELSE token_importances_output,
     kwargs |-> gp]

\* The arguments of self.encoder_decoder.generate.
GenerateEncDecArgs(inputs, token_importances_output, gp) ==
    [input_ids |-> inputs.input_ids, token_importances |-> token_importances_output,
     kwargs |-> gp]

\* Where a call of generate can raise: in the tokenizer, in the extractor's
\* forward pass, in the encoder-decoder's generation or in the decoding.
GenerateFaults == {"none", "tokenizer", "extractor", "encoder_decoder", "batch_decode"}

Generate(passage, question, history, gp_arg, return_importances, fault) ==
    /\ tok_calls < MaxCalls
    /\ LET gp == GenerationParamsUsed(gp_arg)
           question_and_history == GenerateLinearize(tokenizer, question, history)
           n == tok_calls + 1
           inputs == Tokenize(question_and_history, passage, n)
           tokenizer_call == Some([text |-> question_and_history, text_pair |-> passage,
                                   call |-> n])
           ctx == NoGradEnter(grad_enabled)
           token_importances_output ==
               ExtractorForward(inputs.input_ids, inputs.attention_mask)
           extractor_call == Some([input_ids |-> inputs.input_ids,
                                   output |-> token_importances_output,
                                   grad_enabled |-> ctx.inside])
           encdec_call == Some([args |-> GenerateEncDecArgs(inputs,
                                            token_importances_output, gp),
                                grad_enabled |-> ctx.inside])
           generated_text == [answers_for |-> n]
           args == [passage |-> passage, question |-> question, history |-> history,
                    generation_params |-> gp_arg,
                    return_importances |-> return_importances]
       IN /\ generation_params' = GenerateStored(gp_arg)
          /\ tok_calls' = n
          /\ grad_enabled' = (IF fault = "tokenizer" THEN grad_enabled
                              ELSE NoGradExit(ctx))
          /\ last' =
               CASE fault = "tokenizer" ->
                      Call("generate", args, "raised", fault, tokenizer_call,
                           None, None, None)
                 [] fault = "extractor" ->
                      Call("generate", args, "raised", fault, tokenizer_call,
                           Some([input_ids |-> inputs.input_ids, output |-> None,
                                 grad_enabled |-> ctx.inside]),
                           None, None)
                 [] fault \in {"encoder_decoder", "batch_decode"} ->
                      Call("generate", args, "raised", fault, tokenizer_call,
                           extractor_call, encdec_call, None)
                 [] OTHER ->
                      Call("generate", args, "returned", "", tokenizer_call,
                           extractor_call, encdec_call,
                           Some([generated_text |-> generated_text,
                                 token_importances |->
                                     IF return_importances
                                     THEN Some(token_importances_output)
                                     ELSE None]))
    /\ UNCHANGED other_fields

---------------------------------------------------------------------------
(* Model.compute_token_importances                                         *)

ComputeFaults == {"none", "tokenizer", "extractor"}

ComputeTokenImportances(passage, question, history, fault) ==
    /\ tok_calls < MaxCalls
    /\ LET question_and_history == ComputeLinearize(tokenizer, question, history)
           n == tok_calls + 1
           inputs == Tokenize(question_and_history, passage, n)
           tokenizer_call == Some([text |-> question_and_history, text_pair |-> passage,
                                   call |-> n])
           ctx == NoGradEnter(grad_enabled)
           token_importances_output ==
               ExtractorForward(inputs.input_ids, inputs.attention_mask)
           args == [passage |-> passage, question |-> question, history |-> history]
       IN /\ tok_calls' = n
          /\ grad_enabled' = (IF fault = "tokenizer" THEN grad_enabled
                              ELSE NoGradExit(ctx))
          /\ last' =
               CASE fault = "tokenizer" ->
                      Call("compute_token_importances", args, "raised", fault,
                           tokenizer_call, None, None, None)
                 [] fault = "extractor" ->
                      Call("compute_token_importances", args, "raised", fault,
                           tokenizer_call,
                           Some([input_ids |-> inputs.input_ids, output |-> None,
                                 grad_enabled |-> ctx.inside]),
                           None, None)
                 [] OTHER ->
                      Call("compute_token_importances", args, "returned", "",
                           tokenizer_call,
                           Some([input_ids |-> inputs.input_ids,
                                 output |-> token_importances_output,
                                 grad_enabled |-> ctx.inside]),
                           None, Some(token_importances_output))
    /\ UNCHANGED <<other_fields, generation_params>>

---------------------------------------------------------------------------
(* Model.load_weigths                                                      *)

\* The parameter snapshots on disk, named by their paths.
ExtractorSnapshots == {"extractor.pt"}
EncDecSnapshots == {"encoder_decoder.pt"}

\* Where load_weigths can raise: torch.load of either file (missing or
\* unreadable), load_state_dict of either module (incompatible snapshot).
LoadFaults == {"none", "torch.load:extractor", "load_state_dict:extractor",
               "torch.load:encoder_decoder", "load_state_dict:encoder_decoder"}

\* module.load_state_dict(state_dict) that raises: the module's parameters are
\* the ones it held or, when some tensors were copied before the mismatch was
\* reported, a mix of the old ones and the snapshot's.
FailedLoadStateDict(old, copied_some) == IF copied_some THEN "mixed" ELSE old

\* self.token_importances_extractor.load_state_dict(torch.load(path))
LoadExtractor(old, path, fault, copied_some) ==
    CASE fault = "torch.load:extractor" -> old
      [] fault = "load_state_dict:extractor" -> FailedLoadStateDict(old, copied_some)
      [] OTHER -> path

\* Mutant: the encoder-decoder's snapshot is loaded although the extractor's
\* has failed.
LoadEncDecRegardless(old, path, fault, copied_some) ==
    CASE fault = "torch.load:encoder_decoder" -> old
      [] fault = "load_state_dict:encoder_decoder" -> FailedLoadStateDict(old, copied_some)
      [] OTHER -> path

\* self.encoder_decoder.load_state_dict(torch.load(path)): reached only when
\* the first statement has not raised.
LoadEncDec(old, path, fault, copied_some) ==
    CASE fault \in {"torch.load:extractor", "load_state_dict:extractor"} -> old
      [] fault = "torch.load:encoder_decoder" -> old
      [] fault = "load_state_dict:encoder_decoder" -> FailedLoadStateDict(old, copied_some)
      [] OTHER -> path

LoadWeigths(tokenImportancesExtractor_weigths_path, encoderDecoder_weigths_path, fault, copied_some) ==
    /\ extractor_weights' = LoadExtractor(extractor_weights,
                               tokenImportancesExtractor_weigths_path, fault, copied_some)
    /\ encdec_weights' = LoadEncDec(encdec_weights, encoderDecoder_weigths_path,
                               fault, copied_some)
    /\ last' = Call("load_weigths",
                    [tokenImportancesExtractor_weigths_path |->
                         tokenImportancesExtractor_weigths_path,
                     encoderDecoder_weigths_path |-> encoderDecoder_weigths_path],
                    IF fault = "none" THEN "returned" ELSE "raised",
                    IF fault = "none" THEN "" ELSE fault,
                    None, None, None, None)
    /\ UNCHANGED <<model_name, device, tokenizer, config, generation_params,
                   grad_enabled, tok_calls>>

---------------------------------------------------------------------------
(* The facade in use: any sequence of calls on a constructed Model.         *)

Passages == {<<"p">>}
Questions == {<<"q">>, <<"r">>}

\* generation_params as callers give it: absent, a subset of the keys, all
\* the keys.
GenerationParamsArgs ==
    {None, Some([num_beams |-> 5]),
     Some([do_sample |-> TRUE, num_beams |-> 1, repetition_penalty |-> "1."])}

\* One-sample batches: without history, with a two-turn history.
FacadeHistories == {None, Some(<< <<"a">> \o HistorySeparator \o <<"b">> >>)}

GenerateCall ==
    \E passage \in Passages, history \in FacadeHistories,
       gp_arg \in GenerationParamsArgs, return_importances \in BOOLEAN,
       fault \in GenerateFaults :
          Generate(<<passage>>, << <<"q">> >>, history, gp_arg, return_importances, fault)

ComputeCall ==
    \E passage \in Passages, history \in {None}, fault \in ComputeFaults :
          ComputeTokenImportances(passage, <<"q">>, history, fault)

LoadCall ==
    \E p1 \in ExtractorSnapshots, p2 \in EncDecSnapshots, fault \in LoadFaults,
       copied_some \in BOOLEAN :
          LoadWeigths(p1, p2, fault, copied_some)

Next == GenerateCall \/ ComputeCall \/ LoadCall

Spec == Init /\ [][Next]_vars

---------------------------------------------------------------------------
(* Linearization alone: one sample per call, over every history of at most *)
(* MaxTurns turns, with default generation parameters and no failure.      *)

\* The turns of a history: empty, whitespace, a word, and a turn that ends
\* with the beginning of the separator literal.
Turns == {<<>>, <<" ">>, <<"a">>, <<"a", " ", "<", "s", "e", "p", ">">>}

TurnSeqs == UNION {[1..k -> Turns] : k \in 1..MaxTurns}

\* The history strings callers serialize: turns joined by ' <sep> '.
Histories == {Join(HistorySeparator, ts) : ts \in TurnSeqs}

OptionalHistories == {None} \cup {Some(h) : h \in Histories}

GenerateOne ==
    \E passage \in Passages, q \in Questions, h \in OptionalHistories :
        Generate(<<passage>>, <<q>>, IF h = None THEN None ELSE Some(<<h.some>>),
                 None, FALSE, "none")

ComputeOne ==
    \E passage \in Passages, q \in Questions, h \in OptionalHistories :
        ComputeTokenImportances(passage, q, h, "none")

InitLin == Init /\ grad_enabled

NextLin == GenerateOne \/ ComputeOne

SpecLin == InitLin /\ [][NextLin]_vars

---------------------------------------------------------------------------
(* Batches: generate on batches of at most MaxBatch samples, and           *)
(* compute_token_importances on single samples.                            *)

BatchHistories == {<<>>, <<"a">>, <<"a">> \o HistorySeparator \o <<"b">>}

GenerateBatch ==
    \E n \in 1..MaxBatch :
        \E passage \in [1..n -> Passages], question \in [1..n -> Questions],
           history \in {None} \cup {Some(hs) : hs \in [1..n -> BatchHistories]} :
              Generate(passage, question, history, None, FALSE, "none")

ComputeSample ==
    \E passage \in Passages, q \in Questions,
       h \in {None} \cup {Some(x) : x \in BatchHistories} :
          ComputeTokenImportances(passage, q, h, "none")

NextBatch == GenerateBatch \/ ComputeSample

SpecBatch == InitLin /\ [][NextBatch]_vars

---------------------------------------------------------------------------
(* Properties.                                                             *)

\* The samples of the last call: <<question, history (None or Some(str)),
\* the linearized query handed to the tokenizer>>.
LastSamples ==
    IF last.op = "generate"
    THEN {<<last.args.question[i],
            IF last.args.history = None THEN None
            ELSE Some(last.args.history.some[i]),
            last.tokenizer_call.some.text[i]>> :
              i \in 1..Len(last.tokenizer_call.some.text)}
    ELSE IF last.op = "compute_token_importances"
    THEN {<<last.args.question, last.args.history, last.tokenizer_call.some.text>>}
    ELSE {}

\* The number of places of s where sep occurs.
CountOccurrences(s, sep) == Cardinality({i \in 1..Len(s) : OccursAt(s, sep, i)})

\* question + sep + turn1 + sep + turn2 + ... : one separator before each turn.
RECURSIVE ExpectedLinearized(_, _, _)
ExpectedLinearized(q, sep, turns) ==
    IF turns = <<>> THEN q
    ELSE ExpectedLinearized(q \o sep \o Head(turns), sep, Tail(turns))

\* C1: for every question q, linearizing q with the empty string as history
\* gives what linearizing q without history gives, q unchanged, in generate
\* and in compute_token_importances.
C1_EmptyHistoryIsNoHistory ==
    \A s \in LastSamples : s[2] \in {None, Some(<<>>)} => s[3] = s[1]

C3_WhitespaceHistoryInjectsNoSeparator ==
    \A s \in LastSamples :
        (/\ s[2] # None
         /\ Len(s[2].some) >= 1
         /\ \A i \in 1..Len(s[2].some) : s[2].some[i] = " ")
        => Find(s[3], tokenizer.sep_token) = 0

\* The caller's generation_params with every missing key filled from the defaults.
FilledFromDefaults(gp_arg) ==
    [k \in DOMAIN DefaultGenerationParams |->
        IF gp_arg # None /\ k \in DOMAIN gp_arg.some THEN gp_arg.some[k]
        ELSE DefaultGenerationParams[k]]

\* C4 (as claimed): the parameters passed to encoder_decoder.generate are the
\* caller's generation_params with every key left out filled from the
\* defaults {do_sample=false, num_beams=3, repetition_penalty=2.0}.
C4_MissingKeysFilledFromDefaults ==
    (last.op = "generate" /\ last.encdec_call # None) =>
        last.encdec_call.some.args.kwargs = FilledFromDefaults(last.args.generation_params)

\* C4 (amended): the parameters passed to encoder_decoder.generate are exactly
\* the three defaults when generation_params is None, and exactly the
\* caller's generation_params otherwise, no missing key being filled in.
C4_ParamsPassedAsGiven ==
    (last.op = "generate" /\ last.encdec_call # None) =>
        last.encdec_call.some.args.kwargs =
            (IF last.args.generation_params = None
             THEN [do_sample |-> FALSE, num_beams |-> 3, repetition_penalty |-> "2."]
             ELSE last.args.generation_params.some)

\* generate was called with num_beams alone and passed num_beams alone on.
C4_Witness ==
    /\ last.op = "generate"
    /\ last.args.generation_params = Some([num_beams |-> 5])
    /\ last.encdec_call # None
    /\ DOMAIN last.encdec_call.some.args.kwargs = {"num_beams"}

\* C5: after construction, with a tokenizer supplied or built from the model
\* name, and after any sequence of calls, the encoder-decoder's
\* decoder_start_token_id is the tokenizer's cls_token_id and its
\* pad_token_id the tokenizer's pad_token_id.
C5_ConfigSynchronized ==
    /\ config.decoder_start_token_id = tokenizer.cls_token_id
    /\ config.pad_token_id = tokenizer.pad_token_id

\* A facade built with the caller's tokenizer, after a generate and a load_weigths.
C5_Witness ==
    /\ tokenizer = CallerTokenizer
    /\ generation_params # Unset
    /\ last.op = "load_weigths"
    /\ last.outcome = "returned"
    /\ config.decoder_start_token_id = CallerTokenizer.cls_token_id

\* C6: in every generate call the token_importances handed to
\* encoder_decoder.generate, and those returned, were computed from the
\* input_ids of the tokenizer call of this very generate call, the input_ids
\* handed to encoder_decoder.generate.
C6_ImportancesFromSameTokenization ==
    last.op = "generate" =>
        /\ last.encdec_call # None =>
              /\ last.encdec_call.some.args.input_ids.call = last.tokenizer_call.some.call
              /\ last.encdec_call.some.args.token_importances.computed_from
                     = last.encdec_call.some.args.input_ids.call
        /\ (last.ret # None /\ last.ret.some.token_importances # None) =>
              last.ret.some.token_importances.some.computed_from
                  = last.tokenizer_call.some.call

\* A generate call that follows another tokenization and returns its importances.
C6_Witness ==
    /\ last.op = "generate"
    /\ last.tokenizer_call.some.call >= 2
    /\ last.ret # None
    /\ last.ret.some.token_importances # None
    /\ last.encdec_call.some.args.token_importances.computed_from
           = last.tokenizer_call.some.call

\* C7: for batches question and history of equal length N, generate builds N
\* linearized queries, in input order, the i-th being the one
\* compute_token_importances builds for the sample (question[i], history[i]).
C7_BatchIsElementwise ==
    (/\ last.op = "generate"
     /\ last.args.history # None => Len(last.args.history.some) = Len(last.args.question))
    => LET text == last.tokenizer_call.some.text
       IN /\ Len(text) = Len(last.args.question)
          /\ \A i \in 1..Len(text) :
                text[i] = ComputeLinearize(tokenizer, last.args.question[i],
                              IF last.args.history = None THEN None
                              ELSE Some(last.args.history.some[i]))

\* generate has linearized a batch of two samples with different questions
\* and different histories.
C7_Witness ==
    /\ last.op = "generate"
    /\ last.args.question = << <<"q">>, <<"r">> >>
    /\ last.args.history = Some(<< <<"a">> \o HistorySeparator \o <<"b">>, <<"a">> >>)
    /\ Len(last.tokenizer_call.some.text) = 2
    /\ last.tokenizer_call.some.text[1] # last.tokenizer_call.some.text[2]

\* C8: generate changes no field of the facade but generation_params, which
\* becomes the parameters the call uses (the defaults when none are given),
\* whatever was stored before; compute_token_importances changes no field and
\* never calls the encoder-decoder.
C8_FrameOfGenerateAndCompute ==
    [][/\ (tok_calls' # tok_calls /\ last'.op = "generate") =>
             /\ other_fields' = other_fields
             /\ generation_params' =
                   Some(IF last'.args.generation_params = None
                        THEN DefaultGenerationParams
                        ELSE last'.args.generation_params.some)
             /\ last'.encdec_call # None =>
                   Some(last'.encdec_call.some.args.kwargs) = generation_params'
       /\ (tok_calls' # tok_calls /\ last'.op = "compute_token_importances") =>
             /\ other_fields' = other_fields
             /\ generation_params' = generation_params
             /\ last'.encdec_call = None]_vars

\* compute_token_importances has returned on a facade whose last generate used
\* the defaults.
C8_Witness ==
    /\ last.op = "compute_token_importances"
    /\ last.outcome = "returned"
    /\ last.encdec_call = None
    /\ generation_params = Some(DefaultGenerationParams)

\* C9: every extractor forward pass and every encoder-decoder generation of
\* generate and compute_token_importances runs with gradient tracking
\* disabled, and the mode in force before the call is in force after it,
\* whether the call has returned or raised.
C9_NoGradScope ==
    [][tok_calls' # tok_calls =>
          /\ last'.extractor_call # None => ~last'.extractor_call.some.grad_enabled
          /\ last'.encdec_call # None => ~last'.encdec_call.some.grad_enabled
          /\ grad_enabled' = grad_enabled]_vars

\* generate has raised inside the scope, in the encoder-decoder's generation,
\* and gradient tracking is enabled as it was.
C9_Witness ==
    /\ last.op = "generate"
    /\ last.outcome = "raised"
    /\ last.raised_at = "encoder_decoder"
    /\ ~last.encdec_call.some.grad_enabled
    /\ grad_enabled

\* A step of load_weigths that has raised.
FailedLoadStep ==
    /\ tok_calls' = tok_calls
    /\ last'.op = "load_weigths"
    /\ last'.outcome = "raised"

\* C10 (as claimed): whenever load_weigths fails, for either snapshot, the
\* parameters of both modules are the ones they held before the call.
C10_NoPartialLoad ==
    [][FailedLoadStep =>
          /\ extractor_weights' = extractor_weights
          /\ encdec_weights' = encdec_weights]_vars

\* C10 (amended): a failing load_weigths loads nothing after the failing step.
\* When reading the extractor's snapshot fails both modules keep their
\* parameters; when the extractor's snapshot fails in any way the
\* encoder-decoder keeps its parameters; when the encoder-decoder's snapshot
\* fails the extractor already holds its snapshot, and the encoder-decoder
\* keeps its parameters when it is the reading of the file that fails.
C10_FailedLoadStopsAtFailure ==
    [][FailedLoadStep =>
          /\ last'.raised_at = "torch.load:extractor" =>
                extractor_weights' = extractor_weights
          /\ last'.raised_at \in {"torch.load:extractor", "load_state_dict:extractor",
                                  "torch.load:encoder_decoder"} =>
                encdec_weights' = encdec_weights
          /\ last'.raised_at \in {"torch.load:encoder_decoder",
                                  "load_state_dict:encoder_decoder"} =>
                extractor_weights' =
                    last'.args.tokenImportancesExtractor_weigths_path]_vars

\* load_weigths has raised reading the encoder-decoder's snapshot: the
\* extractor holds its snapshot, the encoder-decoder its pretrained parameters.
C10_Witness ==
    /\ last.op = "load_weigths"
    /\ last.outcome = "raised"
    /\ last.raised_at = "torch.load:encoder_decoder"
    /\ extractor_weights = last.args.tokenImportancesExtractor_weigths_path
    /\ encdec_weights = "pretrained"

=============================================================================
